---- MODULE Spec2Model ----
(***************************************************************************)
(* Shadow-Depth-Analytics: the frame segmentation + stability pipeline.    *)
(*                                                                         *)
(*  - Spec     the CameraAnalysis component: camera lifecycle, the         *)
(*             per-frame processFrame callback with its 25-frame sliding   *)
(*             window and six-factor stability verdict, and the            *)
(*             notifications it sends to its parent.                       *)
(*  - SegSpec  generateShadowMask, the segmenter, applied to small frames: *)
(*             Otsu's threshold, its clamp to [30, 80], the saturation     *)
(*             test, the mask written back and the returned ShadowData.    *)
(*  - AppSpec  Spec together with App's calibration workflows: the         *)
(*             CalibrationWizard and the Store Baseline button, both of    *)
(*             which commit a baseline area through finalizeCalibration.   *)
(*  - LiveSpec       Spec on a still hand, with the fairness of the frame  *)
(*                   callback and of the effects.                          *)
(*  - WizardSpec, GeometrySpec, EstimateSpec                               *)
(*                   the wizard under any notifications, App's sliders     *)
(*                   with finalizeCalibration, and estimateH.              *)
(*  - BlockSpec, ModesSpec, ColourSpec, ShapeSpec                          *)
(*                   the segmenter on further families of frames.          *)
(*                                                                         *)
(* A React event handler is modelled together with the render and the      *)
(* effects it triggers (React always runs them); an effect that is         *)
(* delivered asynchronously to another component (onStabilityChange) is an *)
(* action of its own.                                                      *)
(*                                                                         *)
(* Numbers: JavaScript doubles are modelled by exact rational arithmetic   *)
(* over integers (a mean is sum/n, a squared deviation is kept scaled by   *)
(* n^2), so that every comparison of the code is decided exactly.          *)
(***************************************************************************)
EXTENDS Integers, Sequences, FiniteSets, TLC

VARIABLES
    isActive,        \* CameraAnalysis state: the On/Off toggle
    isCameraReady,   \* CameraAnalysis state: the stream is playing
    pendingStarts,   \* startCamera() promises not yet settled
    srcObject,       \* the video element holds a stream (its tracks are live)
    leaked,          \* history variable: a live stream was replaced in the video
    frameHistory,    \* frameHistory.current: sequence of FrameStats
    isStable,        \* CameraAnalysis state: the stability verdict
    lastData,        \* CameraAnalysis state: the last ShadowData, or NoData
    detectedArea,    \* App state, set through onAreaDetected
    isVisionStable,  \* App state, set through onStabilityChange
    scene,           \* environment: what the camera looks at (index in Scenes)
    phase,           \* environment: parity of the frame within the scene
    sceneChanges,    \* environment: scene changes so far
    fed,             \* history variable: the ShadowData processed in this session
    rafQueue,        \* ids of the requestAnimationFrame callbacks not yet run
    animationId,     \* animationId of the loop effect's current closure, 0 if none
    canvas,          \* the canvas handed to generateShadowMask: width, height, pixels
    segInput,        \* history variable: the canvas as the last call found it
    segThreshold,    \* history variable: finalThreshold of the last call
    segOtsu,         \* history variable: otsuThreshold of the last call
    segResult,       \* the ShadowData the last call returned, or NoData
    estArgs,         \* the arguments of the last call of estimateH, or NoArgs
    estValue,        \* what that call returned, in thousandths
    state_L,         \* App state: the light distance state.L, in cm
    state_h,         \* App state: the object position state.h, in tenths of a cm
    A_hand,          \* App state: the baseline area state.A_hand
    isCalibrating,   \* App state: the calibration workflows are shown
    step,            \* CalibrationWizard state: the wizard's step
    capturedArea,    \* CalibrationWizard state: the area taken by Capture Area
    offered,         \* history variable: <<workflow, area>> shown with a true verdict
    committed        \* history variable: <<workflow, area>> of every commit so far

camVars == <<isActive, isCameraReady, pendingStarts, srcObject, leaked, frameHistory, isStable, lastData,
             detectedArea, isVisionStable, scene, phase, sceneChanges, fed,
             rafQueue, animationId>>

segVars == <<canvas, segInput, segThreshold, segOtsu, segResult>>

estVars == <<estArgs, estValue>>

wizVars == <<estVars, state_L, state_h, A_hand, isCalibrating, step, capturedArea, committed>>

appVars == <<wizVars, offered>>

vars == <<camVars, segVars, appVars>>

----------------------------------------------------------------------------
(* Bounds of the model *)

MaxFrames == 27

MaxSceneChanges == 1

MaxPendingStarts == 1

(* Program constant: the capacity of the sliding window *)
WindowSize == 25

----------------------------------------------------------------------------
(* Exact arithmetic helpers *)

Abs(x) == IF x < 0 THEN -x ELSE x

Min(a, b) == IF a < b THEN a ELSE b

Max2(a, b) == IF a > b THEN a ELSE b

RECURSIVE SeqSum(_)
SeqSum(s) == IF s = <<>> THEN 0 ELSE Head(s) + SeqSum(Tail(s))

\* a/b < c/d for naturals a, c and positive b, d, by the continued-fraction
\* expansion (no product is formed, so nothing overflows)
RECURSIVE FracLess(_, _, _, _)
FracLess(a, b, c, d) ==
    LET qa == a \div b
        qc == c \div d
        ra == a % b
        rc == c % d
    IN  IF qa # qc THEN qa < qc
        ELSE IF rc = 0 THEN FALSE
        ELSE IF ra = 0 THEN TRUE
        ELSE FracLess(d, rc, b, ra)

\* a rational number num/den, den > 0
Frac(n, d) == [num |-> n, den |-> d]

\* the sum of a sequence of rationals, as one rational
RECURSIVE FracSum(_)
FracSum(s) ==
    IF s = <<>> THEN Frac(0, 1)
    ELSE LET r == FracSum(Tail(s))
         IN  Frac(Head(s).num * r.den + r.num * Head(s).den, Head(s).den * r.den)

----------------------------------------------------------------------------
(* ShadowData, the segmenter's per-frame summary *)

MkShadowData(c, x0, y0, x1, y1, i) ==
    [count |-> c, minX |-> x0, minY |-> y0, maxX |-> x1, maxY |-> y1,
     avgIntensity |-> i]

NoData == [count |-> -1]

NoCanvas == [width |-> 0, height |-> 0, data |-> <<>>]

(* The frame source.  The canvas is 160 x 120 (640 x 480 at scale 4). *)
Steady  == MkShadowData(500, 60, 40, 85, 60, Frac(40, 1))
Big     == MkShadowData(900, 60, 40, 85, 60, Frac(40, 1))
Wide    == MkShadowData(500, 56, 40, 89, 60, Frac(40, 1))
WideLow == MkShadowData(500, 56, 45, 89, 65, Frac(40, 1))
Washed  == MkShadowData(500, 60, 40, 85, 60, Frac(65, 1))
Tall    == MkShadowData(500, 60, 39, 85, 61, Frac(40, 1))
Faint   == MkShadowData(150, 60, 40, 85, 60, Frac(40, 1))
Empty   == MkShadowData(0, 0, 0, 0, 0, Frac(0, 1))

\* A scene yields its first summary on even frames and its second on odd
\* frames; the camera moves from one scene to the next of the list.
Scenes == << <<Steady, Steady>>, <<Wide, Wide>>, <<WideLow, WideLow>>,
             <<Washed, Washed>>, <<Steady, Big>>, <<Steady, Tall>>,
             <<Faint, Faint>>, <<Empty, Empty>> >>

CurrentData == Scenes[scene][phase + 1]

----------------------------------------------------------------------------
(* processFrame: the stability tracker *)

\* lines 117-126.  cx and cy are held doubled (2*cx = 2*minX + w), so that
\* the half pixel of w / 2 stays exact.
currentFrame(data) ==
    LET w == data.maxX - data.minX
        h == data.maxY - data.minY
    IN  [area |-> data.count, width |-> w, height |-> h,
         cx |-> 2 * data.minX + w, cy |-> 2 * data.minY + h,
         intensity |-> data.avgIntensity]

\* getStats: mean = sum / n and stdDev = sqrt(sqDev / n^3), where
\* sqDev = SUM (n*b - sum)^2 = n^2 * SUM (b - mean)^2
getStats(values) ==
    LET n == Len(values)
        sum == SeqSum(values)
    IN  [n |-> n, sum |-> sum,
         sqDev |-> SeqSum([i \in 1..n |-> (n * values[i] - sum) * (n * values[i] - sum)])]

\* stats.stdDev < p / q
StdDevLess(stats, p, q) ==
    stats.sqDev * q * q < p * p * stats.n * stats.n * stats.n

\* getStats over the intensities, which are rationals: mean = sum / n
getIntensityStats(values) == [n |-> Len(values), sum |-> FracSum(values)]

Column(history, field) == [i \in 1..Len(history) |-> history[i][field]]

\* mutant of areaPresent: 1500 typed for 150
areaPresent_Strict(areaStats) == areaStats.sum > 1500 * areaStats.n

areaPresent(areaStats) == areaStats.sum > 150 * areaStats.n

\* mutant of areaStable: 0.5 typed for 0.05
areaStable_Loose(areaStats) ==
    FracLess(areaStats.sqDev, areaStats.n, areaStats.sum * areaStats.sum, 4)

\* stdDev < mean * 0.05, i.e. sqDev / n^3 < sum^2 / (400 * n^2)
areaStable(areaStats) ==
    FracLess(areaStats.sqDev, areaStats.n, areaStats.sum * areaStats.sum, 400)

dimensionsStable(widthStats, heightStats) ==
    StdDevLess(widthStats, 3, 1) /\ StdDevLess(heightStats, 3, 1)

\* stdDev of cx < 2.0, on the doubled values: stdDev of 2*cx < 4
positionStable(xStats, yStats) ==
    StdDevLess(xStats, 4, 1) /\ StdDevLess(yStats, 4, 1)

\* lines 146-153 and 159: total / (length - 1) < 1.5
totalDelta(values) ==
    SeqSum([i \in 1..(Len(values) - 1) |-> Abs(values[i + 1] - values[i])])

\* mutant of jitterLow: the height delta is not looked at
jitterLow_WidthOnly(history) ==
    2 * totalDelta(Column(history, "width")) < 3 * (Len(history) - 1)

jitterLow(history) ==
    /\ 2 * totalDelta(Column(history, "width")) < 3 * (Len(history) - 1)
    /\ 2 * totalDelta(Column(history, "height")) < 3 * (Len(history) - 1)

\* mean intensity < 65
shadowQuality(intensityStats) ==
    intensityStats.sum.num < 65 * intensityStats.n * intensityStats.sum.den

\* lines 139-162: the value handed to setIsStable
Verdict(history) ==
    /\ areaPresent(getStats(Column(history, "area")))
    /\ areaStable(getStats(Column(history, "area")))
    /\ dimensionsStable(getStats(Column(history, "width")),
                        getStats(Column(history, "height")))
    /\ positionStable(getStats(Column(history, "cx")), getStats(Column(history, "cy")))
    /\ jitterLow(history)
    /\ shadowQuality(getIntensityStats(Column(history, "intensity")))

\* mutant of WindowOverflows: a window of 5
WindowOverflows_Short(pushed) == Len(pushed) > 5

\* line 129: the window overflows, which is also when the verdict is computed
WindowOverflows(pushed) == Len(pushed) > WindowSize

\* mutant of Shift: pop() for shift(), the newest observation is dropped
Shift_Pop(pushed) == SubSeq(pushed, 1, Len(pushed) - 1)

\* line 130: shift() drops the oldest observation
Shift(pushed) == Tail(pushed)

\* What the calibration workflows show after a step: the wizard renders
\* currentDetectedArea under the verdict it was given (isVisionStable), the
\* Store Baseline bar renders under CameraAnalysis' own isStable and lastData.
\* Every area shown with a true verdict is remembered.
Observe ==
    offered' = offered
        \cup (IF isCalibrating' /\ isVisionStable'
              THEN {<<"wizard", detectedArea'>>} ELSE {})
        \cup (IF isCalibrating' /\ isStable' /\ lastData' # NoData
              THEN {<<"baseline", lastData'.count>>} ELSE {})

\* requestAnimationFrame returns an id it has not handed out before: here
\* the least id that is neither pending nor the one last handed out
FreshId(queue, last) ==
    CHOOSE i \in 1..(Cardinality(queue) + 2) :
        /\ i \notin queue /\ i # last
        /\ \A j \in 1..(i - 1) : j \in queue \/ j = last

\* mutant of StoredId: the id of the rescheduled callback is not kept
StoredId_Stale(newId, oldId) == oldId

\* line 225: animationId = requestAnimationFrame(processFrame)
StoredId(newId, oldId) == newId

\* line 229: the cleanup, cancelAnimationFrame(animationId)
Cancelled(queue, id) == queue \ {id}

\* lines 228-229 after the cleanup of the previous run: the loop effect
\* schedules the first callback of its new closure
Restarted(queue, id) ==
    LET cleaned == Cancelled(queue, id)
        first == FreshId(cleaned, id)
    IN  [queue |-> cleaned \cup {first}, id |-> first]

\* lines 95-226, the requestAnimationFrame callback with id: lines 113-163
\* on the frame, line 225 for the next callback, and the re-run of the loop
\* effect when the render finds isStable changed (line 230)
ProcessFrame ==
    /\ UNCHANGED <<segVars, wizVars>>
    /\ Len(fed) < MaxFrames
    /\ \E id \in rafQueue :
        LET data == CurrentData
            pushed == Append(frameHistory, currentFrame(data))
            verdict == IF WindowOverflows(pushed) THEN Verdict(Shift(pushed)) ELSE isStable
            next == FreshId(rafQueue \ {id}, id)
            queued == (rafQueue \ {id}) \cup {next}
            \* the callback of an outdated closure stores the id in that closure
            stored == IF id = animationId THEN StoredId(next, animationId) ELSE animationId
        IN  /\ lastData' = data
            /\ detectedArea' = data.count
            /\ IF WindowOverflows(pushed)
               THEN /\ frameHistory' = Shift(pushed)
                    /\ isStable' = Verdict(Shift(pushed))
               ELSE /\ frameHistory' = pushed
                    /\ UNCHANGED isStable
            /\ fed' = Append(fed, data)
            /\ IF verdict # isStable
               THEN /\ rafQueue' = Restarted(queued, stored).queue
                    /\ animationId' = Restarted(queued, stored).id
               ELSE /\ rafQueue' = queued
                    /\ animationId' = stored
    /\ phase' = 1 - phase
    /\ UNCHANGED <<isActive, isCameraReady, pendingStarts, srcObject, leaked,
                   isVisionStable, scene, sceneChanges>>
    /\ Observe

----------------------------------------------------------------------------
(* The camera lifecycle and the effects *)

\* mutant of ClearedHistory: the effect forgets the history
ClearedHistory_Kept(history) == history

\* lines 88-92: the value the loop effect leaves in frameHistory.current
\* when the camera is not ready or not active
ClearedHistory(history) == <<>>

\* lines 87-92 and 94-229: the loop effect, run after a render in which
\* isCameraReady or isActive changed
LoopEffect(active, ready) ==
    IF ~ready \/ ~active
    THEN /\ isStable' = FALSE
         /\ frameHistory' = ClearedHistory(frameHistory)
         /\ fed' = <<>>
         /\ rafQueue' = Cancelled(rafQueue, animationId)
         /\ animationId' = 0
    ELSE /\ UNCHANGED <<isStable, frameHistory, fed>>
         /\ rafQueue' = Restarted(rafQueue, animationId).queue
         /\ animationId' = Restarted(rafQueue, animationId).id

\* line 266, the On/Off button, with the camera effect (lines 50-84) and the
\* loop effect that the render triggers
ToggleActive ==
    /\ UNCHANGED <<segVars, wizVars>>
    /\ IF isActive
       THEN /\ isActive' = FALSE
            /\ isCameraReady' = FALSE
            /\ srcObject' = FALSE
            /\ UNCHANGED <<pendingStarts, leaked>>
            /\ LoopEffect(FALSE, FALSE)
       ELSE /\ pendingStarts < MaxPendingStarts
            /\ isActive' = TRUE
            /\ pendingStarts' = pendingStarts + 1
            /\ UNCHANGED <<isCameraReady, srcObject, leaked>>
            /\ LoopEffect(TRUE, isCameraReady)
    /\ UNCHANGED <<lastData, detectedArea, isVisionStable, scene, phase, sceneChanges>>
    /\ Observe

\* lines 62-69: getUserMedia and play() resolve, whatever isActive is by
\* then; the new stream replaces the one the video holds, unstopped
StartCameraDone ==
    /\ UNCHANGED <<segVars, wizVars>>
    /\ pendingStarts > 0
    /\ pendingStarts' = pendingStarts - 1
    /\ isCameraReady' = TRUE
    /\ srcObject' = TRUE
    /\ leaked' = (leaked \/ srcObject)
    /\ IF isCameraReady
       THEN UNCHANGED <<isStable, frameHistory, fed, rafQueue, animationId>>
       ELSE LoopEffect(isActive, TRUE)
    /\ UNCHANGED <<isActive, lastData, detectedArea, isVisionStable, scene, phase,
                   sceneChanges>>
    /\ Observe

\* lines 70-74: getUserMedia or play() rejects; setIsActive(false) re-runs
\* both effects when isActive was true
StartCameraFailed ==
    /\ UNCHANGED <<segVars, wizVars>>
    /\ pendingStarts > 0
    /\ pendingStarts' = pendingStarts - 1
    /\ isActive' = FALSE
    /\ IF isActive
       THEN /\ isCameraReady' = FALSE
            /\ srcObject' = FALSE
            /\ LoopEffect(FALSE, FALSE)
       ELSE UNCHANGED <<isCameraReady, srcObject, isStable, frameHistory, fed, rafQueue,
                        animationId>>
    /\ UNCHANGED leaked
    /\ UNCHANGED <<lastData, detectedArea, isVisionStable, scene, phase, sceneChanges>>
    /\ Observe

\* lines 39-41 with App's handleStabilityChange: the parent learns the verdict
StabilityEffect ==
    /\ UNCHANGED <<segVars, wizVars>>
    /\ isVisionStable # isStable
    /\ isVisionStable' = isStable
    /\ UNCHANGED <<isActive, isCameraReady, pendingStarts, frameHistory, isStable,
                   lastData, detectedArea, scene, phase, sceneChanges, fed,
                   rafQueue, animationId, srcObject, leaked>>
    /\ Observe

\* the environment: the camera is pointed at the next scene
SceneChange ==
    /\ UNCHANGED <<segVars, wizVars>>
    /\ sceneChanges < MaxSceneChanges
    /\ sceneChanges' = sceneChanges + 1
    /\ scene' = (scene % Len(Scenes)) + 1
    /\ UNCHANGED <<isActive, isCameraReady, pendingStarts, frameHistory, isStable,
                   lastData, detectedArea, isVisionStable, phase, fed,
                   rafQueue, animationId, srcObject, leaked>>
    /\ Observe

----------------------------------------------------------------------------
(* App and the CalibrationWizard *)

\* constants.ts line 4
DEFAULT_L == 50

\* constants.ts line 5
DEFAULT_H == 5

\* constants.ts line 6
DEFAULT_A_HAND == 2000

\* the h slider moves in steps of 0.1 (App line 145): h is kept in tenths
Tenths == 10

\* enum Step of CalibrationWizard
INTRO == 0

CLEAR_SURFACE == 1

PLACE_HAND == 2

CONFIRM == 3

\* estimateH has not been called
NoArgs == [L |-> -1]

\* App's and the wizard's useState initial values
AppFresh ==
    /\ estArgs = NoArgs
    /\ estValue = 0
    /\ state_L = DEFAULT_L
    /\ state_h = DEFAULT_H * Tenths
    /\ A_hand = DEFAULT_A_HAND
    /\ isCalibrating = FALSE
    /\ step = INTRO
    /\ capturedArea = 0
    /\ offered = {}
    /\ committed = {}

Init ==
    /\ AppFresh
    /\ isActive = FALSE
    /\ isCameraReady = FALSE
    /\ pendingStarts = 0
    /\ srcObject = FALSE
    /\ leaked = FALSE
    /\ frameHistory = <<>>
    /\ isStable = FALSE
    /\ lastData = NoData
    /\ detectedArea = 0
    /\ isVisionStable = FALSE
    /\ scene \in 1..Len(Scenes)
    /\ phase = 0
    /\ sceneChanges = 0
    /\ fed = <<>>
    /\ rafQueue = {}
    /\ animationId = 0
    /\ canvas = NoCanvas
    /\ segInput = NoCanvas
    /\ segThreshold = 0
    /\ segOtsu = 0
    /\ segResult = NoData

Next ==
    \/ ToggleActive
    \/ StartCameraDone
    \/ StartCameraFailed
    \/ ProcessFrame
    \/ StabilityEffect
    \/ SceneChange

Spec == Init /\ [][Next]_vars

\* The camera looks at the still hand from the start
LiveInit ==
    /\ Init
    /\ scene = 1

\* A step of processFrame, told by what only processFrame does: it appends
\* the frame's summary to the session.  It is enabled exactly when a
\* callback is scheduled (and the model's frame budget is not used up).
FrameProcessed ==
    /\ rafQueue # {}
    /\ Len(fed) < MaxFrames
    /\ fed' = Append(fed, CurrentData)

\* The browser runs every scheduled requestAnimationFrame callback and
\* React runs every pending effect, so neither processFrame nor the
\* notification of the parent is put off for ever.
LiveSpec ==
    /\ LiveInit
    /\ [][Next]_vars
    /\ WF_fed(FrameProcessed)
    /\ WF_vars(StabilityEffect)

----------------------------------------------------------------------------
(* The calibration workflows *)

\* A render in which isCalibrating changed re-runs the loop effect of
\* CameraAnalysis (isCalibrating is one of its dependencies, line 230)
CalibratingEffect ==
    /\ LoopEffect(isActive, isCameraReady)
    /\ UNCHANGED <<isActive, isCameraReady, pendingStarts, srcObject, leaked, lastData,
                   detectedArea, isVisionStable, scene, phase, sceneChanges>>

\* the wizard is mounted with its initial state, or unmounted and its state lost
WizardReset ==
    /\ step' = INTRO
    /\ capturedArea' = 0

\* nothing of CameraAnalysis or of the canvas changes
WizardOnly == UNCHANGED <<camVars, segVars>>

\* App line 100: the Launch Wizard / Cancel Wizard button
ToggleWizard ==
    /\ isCalibrating' = ~isCalibrating
    /\ WizardReset
    /\ CalibratingEffect
    /\ UNCHANGED <<estVars, state_L, state_h, A_hand, committed, segVars>>
    /\ Observe

\* wizard line 145 with App line 82: the close button, onCancel
CancelWizard ==
    /\ isCalibrating
    /\ isCalibrating' = FALSE
    /\ WizardReset
    /\ CalibratingEffect
    /\ UNCHANGED <<estVars, state_L, state_h, A_hand, committed, segVars>>
    /\ Observe

\* wizard line 45: Begin Calibration, nextStep
BeginCalibration ==
    /\ isCalibrating /\ step = INTRO
    /\ step' = step + 1
    /\ UNCHANGED <<estVars, state_L, state_h, A_hand, isCalibrating, capturedArea, committed>>
    /\ WizardOnly
    /\ Observe

\* wizard lines 63 and 101: Back, prevStep
Back ==
    /\ isCalibrating /\ step \in {CLEAR_SURFACE, PLACE_HAND}
    /\ step' = step - 1
    /\ UNCHANGED <<estVars, state_L, state_h, A_hand, isCalibrating, capturedArea, committed>>
    /\ WizardOnly
    /\ Observe

\* wizard lines 64-70: Confirm Clear, disabled while the detected area is above 100
ConfirmClear ==
    /\ isCalibrating /\ step = CLEAR_SURFACE
    /\ ~(detectedArea > 100)
    /\ step' = step + 1
    /\ UNCHANGED <<estVars, state_L, state_h, A_hand, isCalibrating, capturedArea, committed>>
    /\ WizardOnly
    /\ Observe

\* mutant of CaptureEnabled: the button ignores the size of the area
CaptureEnabled_NoMinimum(stable, currentDetectedArea) == stable

\* mutant of CaptureEnabled: the button ignores the verdict
CaptureEnabled_NoLock(stable, currentDetectedArea) == ~(currentDetectedArea < 200)

\* wizard line 107: disabled={!isStable || currentDetectedArea < 200}
CaptureEnabled(stable, currentDetectedArea) == ~(~stable \/ currentDetectedArea < 200)

\* wizard lines 102-111: Capture Area
CaptureArea ==
    /\ isCalibrating /\ step = PLACE_HAND
    /\ CaptureEnabled(isVisionStable, detectedArea)
    /\ capturedArea' = detectedArea
    /\ step' = step + 1
    /\ UNCHANGED <<estVars, state_L, state_h, A_hand, isCalibrating, committed>>
    /\ WizardOnly
    /\ Observe

\* wizard line 126: Retake
Retake ==
    /\ isCalibrating /\ step = CONFIRM
    /\ step' = PLACE_HAND
    /\ UNCHANGED <<estVars, state_L, state_h, A_hand, isCalibrating, capturedArea, committed>>
    /\ WizardOnly
    /\ Observe

\* mutant of finalizeCalibration: the guard area > 0 is missing
finalizeCalibration_NoGuard(workflow, area) ==
    /\ A_hand' = area
    /\ UNCHANGED <<estVars, state_L, state_h>>
    /\ isCalibrating' = FALSE
    /\ committed' = committed \cup {<<workflow, area>>}
    /\ WizardReset
    /\ CalibratingEffect
    /\ UNCHANGED segVars

\* mutant of finalizeCalibration: the area on screen is stored, not the argument
finalizeCalibration_Live(workflow, area) ==
    IF area > 0
    THEN /\ A_hand' = detectedArea
         /\ UNCHANGED <<estVars, state_L, state_h>>
         /\ isCalibrating' = FALSE
         /\ committed' = committed \cup {<<workflow, detectedArea>>}
         /\ WizardReset
         /\ CalibratingEffect
         /\ UNCHANGED segVars
    ELSE /\ UNCHANGED <<wizVars, camVars, segVars>>

\* App lines 61-66: finalizeCalibration(area), called by workflow
finalizeCalibration(workflow, area) ==
    IF area > 0
    THEN /\ A_hand' = area
         /\ UNCHANGED <<estVars, state_L, state_h>>
         /\ isCalibrating' = FALSE
         /\ committed' = committed \cup {<<workflow, area>>}
         /\ WizardReset
         /\ CalibratingEffect
         /\ UNCHANGED segVars
    ELSE /\ UNCHANGED <<wizVars, camVars, segVars>>

\* wizard lines 127-132: Save & Exit, onComplete(capturedArea)
SaveAndExit ==
    /\ isCalibrating /\ step = CONFIRM
    /\ finalizeCalibration("wizard", capturedArea)
    /\ Observe

\* CameraAnalysis line 392: disabled={!lastData || lastData.count < 50 || !isStable}
StoreBaselineEnabled(data, stable) == ~(data = NoData \/ data.count < 50 \/ ~stable)

\* CameraAnalysis lines 390-393: Store Baseline,
\* onCalibrationComplete(lastData?.count || 0)
StoreBaseline ==
    /\ isCalibrating
    /\ StoreBaselineEnabled(lastData, isStable)
    /\ finalizeCalibration("baseline", IF lastData = NoData THEN 0 ELSE lastData.count)
    /\ Observe

\* the calibration runs start over the empty surface (the last scene), onto
\* which the still hand (the first scene) is then placed
AppInit ==
    /\ Init
    /\ scene = Len(Scenes)

AppNext ==
    \/ Next
    \/ ToggleWizard
    \/ CancelWizard
    \/ BeginCalibration
    \/ Back
    \/ ConfirmClear
    \/ CaptureArea
    \/ Retake
    \/ SaveAndExit
    \/ StoreBaseline

AppSpec == AppInit /\ [][AppNext]_vars

----------------------------------------------------------------------------
(* The wizard under every sequence of notifications from CameraAnalysis:   *)
(* App's two callbacks are called with any area and any verdict.           *)

\* areas around the wizard's two limits, 100 and 200
Areas == {0, 100, 101, 199, 200, 500}

\* App lines 53-55: handleAreaDetected(area)
handleAreaDetected ==
    /\ \E area \in Areas : detectedArea' = area
    /\ UNCHANGED <<isActive, isCameraReady, pendingStarts, frameHistory, isStable,
                   lastData, isVisionStable, scene, phase, sceneChanges, fed,
                   rafQueue, animationId, srcObject, leaked>>
    /\ UNCHANGED <<segVars, wizVars>>
    /\ Observe

\* App lines 57-59: handleStabilityChange(stable)
handleStabilityChange ==
    /\ \E stable \in BOOLEAN : isVisionStable' = stable
    /\ UNCHANGED <<isActive, isCameraReady, pendingStarts, frameHistory, isStable,
                   lastData, detectedArea, scene, phase, sceneChanges, fed,
                   rafQueue, animationId, srcObject, leaked>>
    /\ UNCHANGED <<segVars, wizVars>>
    /\ Observe

WizardInit == AppInit

WizardNext ==
    \/ handleAreaDetected
    \/ handleStabilityChange
    \/ ToggleWizard
    \/ CancelWizard
    \/ BeginCalibration
    \/ Back
    \/ ConfirmClear
    \/ CaptureArea
    \/ Retake
    \/ SaveAndExit

WizardSpec == WizardInit /\ [][WizardNext]_vars

----------------------------------------------------------------------------
(* App's geometry state: the two sliders, and finalizeCalibration called   *)
(* with any area                                                           *)

\* positions of the Light Distance slider (min 10, max 200, step 1)
LValues == {10, 11, 50, 200}

\* positions of the Object Position slider, in tenths (min 0, step 0.1)
HValues == {0, 1, 50, 90, 91, 100, 490, 1990}

\* arguments of finalizeCalibration around its guard
FinalizeAreas == {-1, 0, 1, 200}

\* App line 134: onChange of the Light Distance slider; only L is replaced
SetL ==
    /\ \E value \in LValues : state_L' = value
    /\ UNCHANGED <<estVars, state_h, A_hand, isCalibrating, step, capturedArea, committed>>
    /\ UNCHANGED <<camVars, segVars>>
    /\ Observe

\* App line 145: max={state.L - 1} of the Object Position slider, in tenths
MaxH(lightDistance) == (lightDistance - 1) * Tenths

\* App lines 144-147: onChange of the Object Position slider; the browser
\* offers the values from min to max of the render, and only h is replaced
SetH ==
    /\ \E value \in HValues :
          /\ 0 <= value /\ value <= MaxH(state_L)
          /\ state_h' = value
    /\ UNCHANGED <<estVars, state_L, A_hand, isCalibrating, step, capturedArea, committed>>
    /\ UNCHANGED <<camVars, segVars>>
    /\ Observe

\* constants.ts line 32, in tenths: d_hand = Math.max(0.1, L - h)
d_hand(lightDistance, position) ==
    IF lightDistance * Tenths - position > 1 THEN lightDistance * Tenths - position ELSE 1

\* App lines 61-66 called as a function, with any argument
CalibrationCompleted ==
    /\ \E area \in FinalizeAreas : finalizeCalibration("direct", area)
    /\ Observe

GeometryInit == AppInit

GeometryNext ==
    \/ SetL
    \/ SetH
    \/ ToggleWizard
    \/ CalibrationCompleted

GeometrySpec == GeometryInit /\ [][GeometryNext]_vars

----------------------------------------------------------------------------
(* estimateH, applied to every combination of a few arguments.  Results    *)
(* are kept in thousandths, with the square root rounded down to three     *)
(* decimals.                                                               *)

\* the largest r in lo..hi-1 with r * r <= n, for lo * lo <= n < hi * hi
RECURSIVE SqrtBetween(_, _, _)
SqrtBetween(n, lo, hi) ==
    IF hi - lo <= 1 THEN lo
    ELSE LET mid == (lo + hi) \div 2
         IN  IF mid * mid <= n THEN SqrtBetween(n, mid, hi) ELSE SqrtBetween(n, lo, mid)

\* constants.ts lines 44 and 46: Math.sqrt(A_hand / A_shadow), in thousandths
sqrtRatio(handArea, shadowArea) ==
    SqrtBetween((handArea * 1000000) \div shadowArea, 0, 46341)

\* mutant of estimateH: without the ratio > 1 return and without Math.max
estimateH_Unclamped(lightDistance, handArea, shadowArea) ==
    IF shadowArea <= 0 \/ handArea <= 0 THEN lightDistance * 1000
    ELSE lightDistance * 1000 - lightDistance * sqrtRatio(handArea, shadowArea)

\* constants.ts lines 41-48: estimateH(L, A_hand, A_shadow), in thousandths;
\* ratio > 1 is decided exactly, as handArea > shadowArea
estimateH(lightDistance, handArea, shadowArea) ==
    IF shadowArea <= 0 \/ handArea <= 0 THEN lightDistance * 1000
    ELSE IF handArea > shadowArea THEN 0
    ELSE LET value == lightDistance * 1000
                         - lightDistance * sqrtRatio(handArea, shadowArea)
         IN  IF value > 0 THEN value ELSE 0

\* light distances, from 0 up to the slider's maximum
EstimateDistances == {0, 1, 10, 50, 200}

\* areas: not positive, small, close to each other, far apart
EstimateAreas == {-1, 0, 1, 499, 500, 2000}

\* one call of estimateH
CallEstimateH ==
    /\ \E lightDistance \in EstimateDistances, handArea \in EstimateAreas,
          shadowArea \in EstimateAreas :
          /\ estArgs' = [L |-> lightDistance, A_hand |-> handArea, A_shadow |-> shadowArea]
          /\ estValue' = estimateH(lightDistance, handArea, shadowArea)
    /\ UNCHANGED <<state_L, state_h, A_hand, isCalibrating, step, capturedArea, committed>>
    /\ UNCHANGED <<camVars, segVars>>
    /\ Observe

EstimateInit == AppInit

EstimateNext == CallEstimateH

EstimateSpec == EstimateInit /\ [][EstimateNext]_vars

----------------------------------------------------------------------------
(* The segmenter: generateShadowMask with Otsu's threshold and the         *)
(* saturation filter.  SegSpec applies it to every frame of at most        *)
(* MaxPixels pixels over Palette; a second call finds the mask the first   *)
(* call wrote back to the canvas.                                          *)

MaxPixels == 4

Black   == <<0, 0, 0>>
White   == <<255, 255, 255>>
Gray50  == <<50, 50, 50>>
Gray80  == <<80, 80, 80>>
Gray100 == <<100, 100, 100>>

Palette == {Black, White, Gray50, Gray80, Gray100}

Shapes == {wh \in (1..MaxPixels) \X (1..MaxPixels) : wh[1] * wh[2] <= MaxPixels}

\* every frame of at most MaxPixels pixels with its pixels in colours
FramesOver(colours) ==
    UNION {{[width |-> wh[1], height |-> wh[2], data |-> d] :
                d \in [1..(wh[1] * wh[2]) -> colours]} : wh \in Shapes}

Max3(a, b, c) == Max2(a, Max2(b, c))

Min3(a, b, c) == Min(a, Min(b, c))

\* line 76: Math.round(r * 0.299 + g * 0.587 + b * 0.114); the weights add
\* up to 1, so the value is within 0..255 and the clamped array keeps it
grayOf(px) == (299 * px[1] + 587 * px[2] + 114 * px[3] + 500) \div 1000

\* lines 67-79: the 256-bin histogram of the gray values
histogramOf(data) ==
    [g \in 0..255 |-> Cardinality({i \in 1..Len(data) : grayOf(data[i]) = g})]

\* lines 27-41: the loop body for candidate t; st holds sumB, wB, varMax (a
\* rational), threshold, and done once the loop has hit its break
OtsuStep(histogram, totalPixels, sum, t, st) ==
    IF st.done THEN st
    ELSE LET wB == st.wB + histogram[t]
         IN  IF wB = 0 THEN [st EXCEPT !.wB = wB]
             ELSE LET wF == totalPixels - wB
                  IN  IF wF = 0 THEN [st EXCEPT !.wB = wB, !.done = TRUE]
                      ELSE LET sumB == st.sumB + t * histogram[t]
                               \* wB * wF * (mB - mF)^2 = d^2 / (wB * wF)
                               d == sumB * wF - (sum - sumB) * wB
                               varBetween == Frac(d * d, wB * wF)
                               better == FracLess(st.varMax.num, st.varMax.den,
                                                  varBetween.num, varBetween.den)
                           IN  IF better
                               THEN [sumB |-> sumB, wB |-> wB, varMax |-> varBetween,
                                     threshold |-> t, done |-> FALSE]
                               ELSE [st EXCEPT !.sumB = sumB, !.wB = wB]

\* line 26: for (t = lo; t <= hi; t++), the range split in halves to keep
\* the evaluation shallow
RECURSIVE OtsuLoop(_, _, _, _, _, _)
OtsuLoop(histogram, totalPixels, sum, lo, hi, st) ==
    IF lo = hi THEN OtsuStep(histogram, totalPixels, sum, lo, st)
    ELSE LET mid == (lo + hi) \div 2
             half == OtsuLoop(histogram, totalPixels, sum, lo, mid, st)
         IN  IF half.done THEN half
             ELSE OtsuLoop(histogram, totalPixels, sum, mid + 1, hi, half)

\* line 18: sum of i * histogram[i]
RECURSIVE WeightedSum(_, _, _)
WeightedSum(histogram, lo, hi) ==
    IF lo = hi THEN lo * histogram[lo]
    ELSE LET mid == (lo + hi) \div 2
         IN  WeightedSum(histogram, lo, mid) + WeightedSum(histogram, mid + 1, hi)

\* lines 16-44
computeOtsuThreshold(histogram, totalPixels) ==
    OtsuLoop(histogram, totalPixels, WeightedSum(histogram, 0, 255), 0, 255,
             [sumB |-> 0, wB |-> 0, varMax |-> Frac(0, 1), threshold |-> 0,
              done |-> FALSE]).threshold

\* mutant of finalThresholdOf: Otsu's threshold is used as it is
finalThresholdOf_Unclamped(otsuThreshold) == otsuThreshold

\* mutant of finalThresholdOf: the floor of 30 is missing
finalThresholdOf_NoFloor(otsuThreshold) == Min(otsuThreshold, 80)

\* mutant of finalThresholdOf: the cap of 80 is missing
finalThresholdOf_NoCap(otsuThreshold) == Max2(otsuThreshold, 30)

\* line 86
finalThresholdOf(otsuThreshold) == Min(Max2(otsuThreshold, 30), 80)

\* lines 50-55 and 111: getSaturation(r, g, b) < 60, where the saturation is
\* ((max - min) / max) * 255, and 0 when max is 0
saturationBelow60(px) ==
    LET max == Max3(px[1], px[2], px[3])
        min == Min3(px[1], px[2], px[3])
    IN  IF max = 0 THEN TRUE ELSE (max - min) * 255 < 60 * max

\* mutant of isShadow: a pixel at the threshold is dark too
isShadow_Inclusive(px, finalThreshold) ==
    /\ grayOf(px) <= finalThreshold
    /\ (saturationBelow60(px) \/ grayOf(px) < 30)

\* mutant of isShadow: a very dark pixel is not exempt from the saturation test
isShadow_NoDarkOverride(px, finalThreshold) ==
    /\ grayOf(px) < finalThreshold
    /\ saturationBelow60(px)

\* line 111
isShadow(px, finalThreshold) ==
    /\ grayOf(px) < finalThreshold
    /\ (saturationBelow60(px) \/ grayOf(px) < 30)

\* mutant of initialBox: the two corners are swapped
initialBox_Swapped(width, height) ==
    [count |-> 0, intensitySum |-> 0, minX |-> 0, minY |-> 0, maxX |-> width, maxY |-> height]

\* lines 89-94
initialBox(width, height) ==
    [count |-> 0, intensitySum |-> 0, minX |-> width, minY |-> height, maxX |-> 0, maxY |-> 0]

\* lines 96-134: the scan from pixel idx on, in row-major order
RECURSIVE ScanLoop(_, _, _, _)
ScanLoop(cv, finalThreshold, idx, acc) ==
    IF idx >= cv.width * cv.height THEN acc
    ELSE LET x == idx % cv.width
             y == idx \div cv.width
             px == cv.data[idx + 1]
         IN  IF isShadow(px, finalThreshold)
             THEN ScanLoop(cv, finalThreshold, idx + 1,
                      [count |-> acc.count + 1,
                       intensitySum |-> acc.intensitySum + grayOf(px),
                       minX |-> IF x < acc.minX THEN x ELSE acc.minX,
                       minY |-> IF y < acc.minY THEN y ELSE acc.minY,
                       maxX |-> IF x > acc.maxX THEN x ELSE acc.maxX,
                       maxY |-> IF y > acc.maxY THEN y ELSE acc.maxY])
             ELSE ScanLoop(cv, finalThreshold, idx + 1, acc)

\* lines 122-132: the black and white mask written over the frame
maskOf(cv, finalThreshold) ==
    [i \in 1..Len(cv.data) |->
        IF isShadow(cv.data[i], finalThreshold) THEN Black ELSE White]

\* mutant of shadowDataOf: the box is returned as the scan left it, also
\* when no pixel was found
shadowDataOf_RawBox(acc) ==
    MkShadowData(acc.count, acc.minX, acc.minY, acc.maxX, acc.maxY,
                 IF acc.count > 0 THEN Frac(acc.intensitySum, acc.count) ELSE Frac(0, 1))

\* mutant of shadowDataOf: the box is reported as origin and extent
shadowDataOf_Extent(acc) ==
    IF acc.count > 0
    THEN MkShadowData(acc.count, acc.minX, acc.minY, acc.maxX - acc.minX,
                      acc.maxY - acc.minY, Frac(acc.intensitySum, acc.count))
    ELSE MkShadowData(0, 0, 0, 0, 0, Frac(0, 1))

\* lines 138-145
shadowDataOf(acc) ==
    IF acc.count > 0
    THEN MkShadowData(acc.count, acc.minX, acc.minY, acc.maxX, acc.maxY,
                      Frac(acc.intensitySum, acc.count))
    ELSE MkShadowData(0, 0, 0, 0, 0, Frac(0, 1))

\* lines 61-146: generateShadowMask(ctx, width, height) on the canvas
GenerateShadowMask ==
    /\ canvas # NoCanvas
    /\ LET otsuThreshold ==
               computeOtsuThreshold(histogramOf(canvas.data),
                                    canvas.width * canvas.height)
           finalThreshold == finalThresholdOf(otsuThreshold)
           acc == ScanLoop(canvas, finalThreshold, 0,
                           initialBox(canvas.width, canvas.height))
       IN  /\ segResult' = shadowDataOf(acc)
           /\ segThreshold' = finalThreshold
           /\ segOtsu' = otsuThreshold
           /\ canvas' = [canvas EXCEPT !.data = maskOf(canvas, finalThreshold)]
    /\ segInput' = canvas
    /\ UNCHANGED <<camVars, appVars>>

SegInit ==
    /\ AppFresh
    /\ isActive = FALSE
    /\ isCameraReady = FALSE
    /\ pendingStarts = 0
    /\ srcObject = FALSE
    /\ leaked = FALSE
    /\ frameHistory = <<>>
    /\ isStable = FALSE
    /\ lastData = NoData
    /\ detectedArea = 0
    /\ isVisionStable = FALSE
    /\ scene = 1
    /\ phase = 0
    /\ sceneChanges = 0
    /\ fed = <<>>
    /\ rafQueue = {}
    /\ animationId = 0
    /\ canvas \in FramesOver(Palette)
    /\ segInput = NoCanvas
    /\ segThreshold = 0
    /\ segOtsu = 0
    /\ segResult = NoData

SegNext == GenerateShadowMask

SegSpec == SegInit /\ [][SegNext]_vars

----------------------------------------------------------------------------
(* The segmenter on other families of frames *)

\* the state before the first call on one of frames, the camera idle
SegFresh(frames) ==
    /\ AppFresh
    /\ isActive = FALSE
    /\ isCameraReady = FALSE
    /\ pendingStarts = 0
    /\ srcObject = FALSE
    /\ leaked = FALSE
    /\ frameHistory = <<>>
    /\ isStable = FALSE
    /\ lastData = NoData
    /\ detectedArea = 0
    /\ isVisionStable = FALSE
    /\ scene = 1
    /\ phase = 0
    /\ sceneChanges = 0
    /\ fed = <<>>
    /\ rafQueue = {}
    /\ animationId = 0
    /\ canvas \in frames
    /\ segInput = NoCanvas
    /\ segThreshold = 0
    /\ segOtsu = 0
    /\ segResult = NoData

MaxSide == 4

\* the width x height frame that is white except for the black block with
\* corners (x0, y0) and (x1, y1), in row-major order
BlockFrame(width, height, x0, y0, x1, y1) ==
    [width |-> width, height |-> height,
     data |-> [i \in 1..(width * height) |->
                 LET x == (i - 1) % width
                     y == (i - 1) \div width
                 IN  IF x0 <= x /\ x <= x1 /\ y0 <= y /\ y <= y1
                     THEN Black ELSE White]]

BlockFrames ==
    {BlockFrame(w, h, x0, y0, x1, y1) :
        <<w, h, x0, y0, x1, y1>> \in
            {b \in (1..MaxSide) \X (1..MaxSide) \X (0..(MaxSide - 1)) \X (0..(MaxSide - 1))
                     \X (0..(MaxSide - 1)) \X (0..(MaxSide - 1)) :
                b[3] <= b[5] /\ b[5] < b[1] /\ b[4] <= b[6] /\ b[6] < b[2]}}

Gray20  == <<20, 20, 20>>
Gray200 == <<200, 200, 200>>

\* the gray levels of the synthetic bimodal and trimodal frames
Modes == {Gray20, Gray50, Gray200}

ModesInit == SegFresh(FramesOver(Modes))

ModesNext == GenerateShadowMask

\* generateShadowMask on frames with a few well separated gray levels
ModesSpec == ModesInit /\ [][ModesNext]_vars

\* saturated and nearly gray dark colours: gray 18 with saturation 255,
\* gray 49 with saturation 63.75, gray 53 with saturation 42.5
DarkRed == <<60, 0, 0>>
Tinted  == <<60, 45, 45>>
Muted   == <<60, 50, 50>>

Colours == {DarkRed, Tinted, Muted, Gray100, White}

ColourInit == SegFresh(FramesOver(Colours))

ColourNext == GenerateShadowMask

\* generateShadowMask on frames with coloured pixels
ColourSpec == ColourInit /\ [][ColourNext]_vars

BlockInit == SegFresh(BlockFrames)

\* the DOMException of ctx.getImageData for an empty source rectangle
IndexSizeError == [error |-> "IndexSizeError"]

\* lines 96-111 on a buffer shorter than width * height: grayscale[idx] is
\* the 0 the typed array was created with, data[idx * 4] is undefined, the
\* saturation is NaN and gray < 30 decides: the missing pixel is classified
\* as a black one is
Padded(cv) ==
    [cv EXCEPT !.data =
        [i \in 1..(cv.width * cv.height) |->
            IF i <= Len(cv.data) THEN cv.data[i] ELSE Black]]

\* lines 61-146 with no assumption on the shape: the code checks neither
\* width and height nor data.length.  For an empty rectangle getImageData
\* (line 62) throws and the call ends there; for a short buffer the
\* histogram counts the pixels there are (lines 70-79), Otsu is given
\* width * height (line 82), the scan visits width * height indices and
\* writes outside the buffer are dropped
GenerateShadowMaskAnyShape ==
    /\ canvas # NoCanvas
    /\ segInput' = canvas
    /\ IF canvas.width * canvas.height = 0
       THEN /\ segResult' = IndexSizeError
            /\ UNCHANGED <<canvas, segOtsu, segThreshold>>
       ELSE LET otsuThreshold ==
                    computeOtsuThreshold(histogramOf(canvas.data),
                                         canvas.width * canvas.height)
                finalThreshold == finalThresholdOf(otsuThreshold)
                acc == ScanLoop(Padded(canvas), finalThreshold, 0,
                                initialBox(canvas.width, canvas.height))
            IN  /\ segResult' = shadowDataOf(acc)
                /\ segThreshold' = finalThreshold
                /\ segOtsu' = otsuThreshold
                /\ canvas' = [canvas EXCEPT !.data = maskOf(canvas, finalThreshold)]
    /\ UNCHANGED <<camVars, appVars>>

ShapeColours == {Black, Gray50, White}

\* frames of an invalid shape: an empty rectangle, or a buffer with fewer
\* pixels than width * height
BadShapeFrames ==
    {[width |-> wh[1], height |-> wh[2], data |-> <<>>] :
        wh \in {z \in (0..MaxPixels) \X (0..MaxPixels) : z[1] * z[2] = 0 /\ z[1] + z[2] > 0}}
    \cup UNION {UNION {{[width |-> wh[1], height |-> wh[2], data |-> d] :
                           d \in [1..n -> ShapeColours]} :
                       n \in 0..(wh[1] * wh[2] - 1)} : wh \in Shapes}

ShapeInit == SegFresh(BadShapeFrames)

ShapeNext == GenerateShadowMaskAnyShape

\* generateShadowMask on frames of an invalid shape
ShapeSpec == ShapeInit /\ [][ShapeNext]_vars

BlockNext == GenerateShadowMask

\* generateShadowMask on white frames with one black block
BlockSpec == BlockInit /\ [][BlockNext]_vars

----------------------------------------------------------------------------
(* The segmenter's claims *)

Called == segInput # NoCanvas

\* C8: for every frame of width w >= 1 and height h >= 1 the returned count
\* is within 0..w*h, and whenever count > 0 the bounding box satisfies
\* 0 <= minX <= maxX < w and 0 <= minY <= maxY < h.
C8_CountAndBoxInRange ==
    Called =>
        /\ 0 <= segResult.count /\ segResult.count <= segInput.width * segInput.height
        /\ segResult.count > 0 =>
              /\ 0 <= segResult.minX /\ segResult.minX <= segResult.maxX
              /\ segResult.maxX < segInput.width
              /\ 0 <= segResult.minY /\ segResult.minY <= segResult.maxY
              /\ segResult.maxY < segInput.height

\* a frame with shadow and non-shadow pixels whose box is not the full frame
C8_Witness ==
    /\ Called
    /\ segResult.count > 0
    /\ segResult.count < segInput.width * segInput.height
    /\ segResult.minX > 0

AllPixels(cv, px) == \A i \in 1..Len(cv.data) : cv.data[i] = px

\* C9: an all-black frame yields count = width * height, bounding box
\* (0, 0, width - 1, height - 1) and avgIntensity = 0.
C9_AllBlackIsAllShadow ==
    (Called /\ AllPixels(segInput, Black)) =>
        /\ segResult.count = segInput.width * segInput.height
        /\ segResult.minX = 0 /\ segResult.minY = 0
        /\ segResult.maxX = segInput.width - 1
        /\ segResult.maxY = segInput.height - 1
        /\ segResult.avgIntensity.num = 0

\* an all-black frame of more than one row and column has been segmented
C9_Witness ==
    /\ Called /\ AllPixels(segInput, Black)
    /\ segInput.width > 1 /\ segInput.height > 1

\* C10: an all-white frame yields count = 0, and no pixel with gray >= 80
\* is ever classified as shadow (the mask shows it white).
C10_BrightNeverShadow ==
    Called =>
        /\ AllPixels(segInput, White) => segResult.count = 0
        /\ \A i \in 1..Len(segInput.data) :
              grayOf(segInput.data[i]) >= 80 => canvas.data[i] = White
        /\ segResult.count <=
              Cardinality({i \in 1..Len(segInput.data) : grayOf(segInput.data[i]) < 80})

\* Otsu selects a threshold above 80 and the frame holds a pixel of gray 80
C10_Witness ==
    /\ Called
    /\ computeOtsuThreshold(histogramOf(segInput.data), Len(segInput.data)) > 80
    /\ \E i \in 1..Len(segInput.data) : grayOf(segInput.data[i]) = 80
    /\ segResult.count > 0

\* the pixels of cv that have colour px, as (x, y) coordinates
PixelsOf(cv, px) ==
    {<<(i - 1) % cv.width, (i - 1) \div cv.width>> : i \in {j \in 1..Len(cv.data) : cv.data[j] = px}}

\* cv is white except for a filled rectangle of black pixels
IsBlockFrame(cv) ==
    LET black == PixelsOf(cv, Black)
    IN  /\ \A i \in 1..Len(cv.data) : cv.data[i] \in {Black, White}
        /\ black # {}
        /\ \A a \in black : \A b \in black :
              \A x \in a[1]..b[1] : \A y \in a[2]..b[2] : <<x, y>> \in black

\* C11: for a frame that is white except for a rectangular block of black
\* pixels the result is count = number of block pixels, bounding box = the
\* block's corners and avgIntensity = 0; the 4x4 frame with the block
\* (1,1)-(2,2) gives count 4 and box (1,1,2,2).
C11_BlockReported ==
    (Called /\ IsBlockFrame(segInput)) =>
        LET black == PixelsOf(segInput, Black)
        IN  /\ segResult.count = Cardinality(black)
            /\ \A p \in black :
                  /\ segResult.minX <= p[1] /\ p[1] <= segResult.maxX
                  /\ segResult.minY <= p[2] /\ p[2] <= segResult.maxY
            /\ \E p \in black : \E q \in black :
                  /\ p[1] = segResult.minX /\ p[2] = segResult.minY
                  /\ q[1] = segResult.maxX /\ q[2] = segResult.maxY
            /\ segResult.avgIntensity.num = 0
            /\ segInput = BlockFrame(4, 4, 1, 1, 2, 2) =>
                  /\ segResult.count = 4
                  /\ <<segResult.minX, segResult.minY, segResult.maxX, segResult.maxY>>
                        = <<1, 1, 2, 2>>

\* the 4x4 frame with the 2x2 block at (1,1)-(2,2) has been segmented
C11_Witness ==
    /\ Called
    /\ segInput = BlockFrame(4, 4, 1, 1, 2, 2)
    /\ segResult.count = 4

\* the gray levels that occur in data
Levels(data) == {grayOf(data[i]) : i \in 1..Len(data)}

\* number of pixels of data with gray level g
CountAt(data, g) == Cardinality({i \in 1..Len(data) : grayOf(data[i]) = g})

\* the split the classifier applies: class B is gray < t, class F is gray >= t
DarkClass(data, t) == {i \in 1..Len(data) : grayOf(data[i]) < t}

BrightClass(data, t) == {i \in 1..Len(data) : grayOf(data[i]) >= t}

RECURSIVE GraySum(_, _)
GraySum(data, idxs) ==
    IF idxs = {} THEN 0
    ELSE LET i == CHOOSE j \in idxs : TRUE
         IN  grayOf(data[i]) + GraySum(data, idxs \ {i})

\* wB * wF * (meanB - meanF)^2 for the split at t, as a rational:
\* (sumB * wF - sumF * wB)^2 / (wB * wF); both classes must be populated
SplitVariance(data, t) ==
    LET B == DarkClass(data, t)
        F == BrightClass(data, t)
        d == GraySum(data, B) * Cardinality(F) - GraySum(data, F) * Cardinality(B)
    IN  Frac(d * d, Cardinality(B) * Cardinality(F))

ValidSplit(data, t) == DarkClass(data, t) # {} /\ BrightClass(data, t) # {}

\* C12: for every histogram with at least two populated bins the threshold
\* returned by computeOtsuThreshold maximizes wB*wF*(meanB-meanF)^2 over the
\* splits gray < t / gray >= t with both classes populated (the split the
\* classifier applies).
C12_OtsuMaximizesClassifierSplit ==
    (Called /\ Cardinality(Levels(segInput.data)) >= 2) =>
        /\ ValidSplit(segInput.data, segOtsu)
        /\ \A u \in Levels(segInput.data) :
              ValidSplit(segInput.data, u) =>
                  LET best == SplitVariance(segInput.data, segOtsu)
                      other == SplitVariance(segInput.data, u)
                  IN  ~FracLess(best.num, best.den, other.num, other.den)

\* C13: for a histogram with exactly two populated intensities a < b in
\* equal proportion the returned threshold lands between the modes, so that
\* gray < t puts exactly the pixels at a in the dark class.
C13_BimodalThresholdBetweenModes ==
    \A a \in Levels(segInput.data) : \A b \in Levels(segInput.data) :
        (/\ Called
         /\ Levels(segInput.data) = {a, b} /\ a < b
         /\ CountAt(segInput.data, a) = CountAt(segInput.data, b)) =>
            /\ a < segOtsu /\ segOtsu <= b
            /\ DarkClass(segInput.data, segOtsu)
                  = {i \in 1..Len(segInput.data) : grayOf(segInput.data[i]) = a}

\* C14: for every frame, including a single-colour frame where Otsu finds
\* no valid split, the threshold used for classification lies in [30, 80].
C14_FinalThresholdClamped == Called => (30 <= segThreshold /\ segThreshold <= 80)

\* a single-colour frame of gray 100: Otsu finds no split and returns 0, the
\* classification threshold is the floor
C14_Witness ==
    /\ Called
    /\ AllPixels(segInput, Gray100)
    /\ segOtsu = 0
    /\ segThreshold = 30

\* round(0.299 R + 0.587 G + 0.114 B): the integer nearest to the weighted sum
RoundedGray(px) ==
    CHOOSE g \in 0..255 :
        LET v == 299 * px[1] + 587 * px[2] + 114 * px[3]
        IN  1000 * g - 500 <= v /\ v < 1000 * g + 500

\* sat = 255 * (max - min) / max < 60, with sat = 0 when max = 0
LowSaturation(px) ==
    LET c == {px[1], px[2], px[3]}
        max == CHOOSE m \in c : \A o \in c : o <= m
        min == CHOOSE m \in c : \A o \in c : m <= o
    IN  max = 0 \/ 255 * (max - min) < 60 * max

\* the pixels the rule of the claim calls shadow under threshold thr
ShadowRule(cv, thr) ==
    {i \in 1..Len(cv.data) :
        /\ RoundedGray(cv.data[i]) < thr
        /\ (LowSaturation(cv.data[i]) \/ RoundedGray(cv.data[i]) < 30)}

RECURSIVE RoundedGraySum(_, _)
RoundedGraySum(cv, idxs) ==
    IF idxs = {} THEN 0
    ELSE LET i == CHOOSE j \in idxs : TRUE
         IN  RoundedGray(cv.data[i]) + RoundedGraySum(cv, idxs \ {i})

\* C15: a pixel is counted as shadow if and only if gray < finalThreshold
\* and (sat < 60 or gray < 30); count, intensity sum and bounding box are
\* accumulated over exactly those pixels (and the mask is black on them).
C15_ShadowIffRule ==
    Called =>
        LET S == ShadowRule(segInput, segThreshold)
            xs == {(i - 1) % segInput.width : i \in S}
            ys == {(i - 1) \div segInput.width : i \in S}
        IN  /\ segResult.count = Cardinality(S)
            /\ \A i \in 1..Len(segInput.data) : (canvas.data[i] = Black) <=> (i \in S)
            /\ S # {} =>
                  /\ segResult.avgIntensity.num * Cardinality(S)
                        = RoundedGraySum(segInput, S) * segResult.avgIntensity.den
                  /\ segResult.minX \in xs /\ \A x \in xs : segResult.minX <= x
                  /\ segResult.maxX \in xs /\ \A x \in xs : x <= segResult.maxX
                  /\ segResult.minY \in ys /\ \A y \in ys : segResult.minY <= y
                  /\ segResult.maxY \in ys /\ \A y \in ys : y <= segResult.maxY

\* one frame in which a pixel below the threshold is rejected for its
\* saturation while a pixel of low saturation below the threshold is shadow
C15_Witness ==
    /\ Called
    /\ \E i \in 1..Len(segInput.data) :
          /\ segInput.data[i] = Tinted /\ grayOf(Tinted) < segThreshold
          /\ canvas.data[i] = White
    /\ \E i \in 1..Len(segInput.data) :
          segInput.data[i] = Muted /\ canvas.data[i] = Black

\* C24: every pixel whose gray value is below 30 is classified as shadow
\* (black in the mask), whatever its saturation and whatever the other
\* pixels of the frame are, i.e. whatever threshold Otsu selects.
C24_NearBlackAlwaysShadow ==
    Called =>
        \A i \in 1..Len(segInput.data) :
            RoundedGray(segInput.data[i]) < 30 => canvas.data[i] = Black

\* a saturated near-black pixel is shadow in a frame that also holds a
\* brighter colour which is not
C24_Witness ==
    /\ Called
    /\ \E i \in 1..Len(segInput.data) :
          segInput.data[i] = DarkRed /\ canvas.data[i] = Black
    /\ \E i \in 1..Len(segInput.data) :
          segInput.data[i] = Gray100 /\ canvas.data[i] = White

\* C25: whenever count > 0, avgIntensity is strictly below the clamped
\* threshold used for the frame, hence strictly below 80.
C25_AverageBelowThreshold ==
    (Called /\ segResult.count > 0) =>
        /\ segResult.avgIntensity.num < segThreshold * segResult.avgIntensity.den
        /\ segResult.avgIntensity.num < 80 * segResult.avgIntensity.den

\* shadow pixels that are not black: the average is positive
C25_Witness ==
    /\ Called
    /\ segResult.count > 1
    /\ segResult.avgIntensity.num > 0

\* C16: running generateShadowMask twice in a row on the same canvas, with
\* no redraw in between, returns two identical ShadowData values: a call
\* that follows a call returns what that call returned.
C16_SecondCallSameResult == [][Called => segResult' = segResult]_vars

\* C17: generateShadowMask only reads the frame: after the call the pixel
\* buffer holds the same RGB values as before the call.
C17_FrameUnchanged == Called => canvas.data = segInput.data

InvalidShape(cv) ==
    cv.width * cv.height = 0 \/ Len(cv.data) # cv.width * cv.height

\* C18: called with an invalid input shape (width * height = 0, or a pixel
\* buffer whose length differs from 4 * width * height) generateShadowMask
\* fails with an error before classifying any pixel: it returns no
\* ShadowData and writes no mask.
C18_InvalidShapeFails ==
    (Called /\ InvalidShape(segInput)) =>
        /\ segResult = IndexSizeError
        /\ canvas = segInput

\* the last call classified no pixel as shadow: the mask is white everywhere
NoShadowFound == \A i \in 1..Len(canvas.data) : canvas.data[i] = White

\* C19: whenever generateShadowMask classifies no pixel as shadow it returns
\* count = 0, bounding box (0, 0, 0, 0) and avgIntensity = 0; and for every
\* frame avgIntensity lies in [0, 255].
C19_EmptyResultIsZero ==
    Called =>
        /\ NoShadowFound =>
              /\ segResult.count = 0
              /\ <<segResult.minX, segResult.minY, segResult.maxX, segResult.maxY>>
                    = <<0, 0, 0, 0>>
              /\ segResult.avgIntensity.num = 0
        /\ segResult.avgIntensity.den > 0
        /\ 0 <= segResult.avgIntensity.num
        /\ segResult.avgIntensity.num <= 255 * segResult.avgIntensity.den

\* no shadow in a frame of several columns and rows that holds a pixel
\* darker than the threshold, rejected for its saturation
C19_Witness ==
    /\ Called /\ NoShadowFound
    /\ segInput.width > 1 /\ segInput.height > 1
    /\ \E i \in 1..Len(segInput.data) :
          segInput.data[i] = Tinted /\ grayOf(Tinted) < segThreshold

----------------------------------------------------------------------------
(* The stability tracker's claims *)

\* C1: in a sampling session, after fewer than 25 processed frames the
\* verdict isStable is false, whatever the frames were.
C1_UnstableBeforeWindowFull == Len(fed) < WindowSize => isStable = FALSE

\* 24 frames of the qualifying summary have been processed
C1_Witness == Len(fed) = WindowSize - 1 /\ \A i \in 1..Len(fed) : fed[i] = Steady

AllSteady == \A i \in 1..Len(fed) : fed[i] = Steady

\* C2: after n >= 25 identical observations (500, fixed box, 40) fed into a
\* freshly reset tracker the verdict is true; the verdict is evaluated as
\* soon as the window holds 25 observations.
C2_StableAfter25Identical == (Len(fed) >= WindowSize /\ AllSteady) => isStable = TRUE

\* the area alternates between 500 and 900 on every frame, box and
\* intensity fixed
Alternating ==
    /\ \A i \in 1..Len(fed) : fed[i] \in {Steady, Big}
    /\ \A i \in 1..(Len(fed) - 1) : fed[i + 1] # fed[i]

\* C3: a stream whose area alternates between 500 and 900 on every frame
\* yields isStable = false after the 25th and after every later observation.
C3_AlternatingAreaUnstable == (Len(fed) >= WindowSize /\ Alternating) => isStable = FALSE

\* the verdict has been computed on an alternating window
C3_Witness == Len(fed) > WindowSize /\ Alternating

(* The six conditions, stated on the last 25 summaries of the session with *)
(* the textbook formulas: mean = S / n, variance = (n * SUM x^2 - S^2) / n^2 *)
Window == SubSeq(fed, Len(fed) - WindowSize + 1, Len(fed))

RECURSIVE SumTo(_, _)
SumTo(f, k) == IF k = 0 THEN 0 ELSE f[k] + SumTo(f, k - 1)

\* n^2 times the population variance of f[1..n]
VarN2(f, n) == n * SumTo([i \in 1..n |-> f[i] * f[i]], n) - SumTo(f, n) * SumTo(f, n)

RECURSIVE ProdTo(_, _)
ProdTo(f, k) == IF k = 0 THEN 1 ELSE f[k] * ProdTo(f, k - 1)

SixConditions(W) ==
    LET n == Len(W)
        area == [i \in 1..n |-> W[i].count]
        wd == [i \in 1..n |-> W[i].maxX - W[i].minX]
        ht == [i \in 1..n |-> W[i].maxY - W[i].minY]
        \* twice the centroid: 2 * (minX + width / 2) = minX + maxX
        cxx == [i \in 1..n |-> W[i].minX + W[i].maxX]
        cyy == [i \in 1..n |-> W[i].minY + W[i].maxY]
        S == SumTo(area, n)
        D == ProdTo([i \in 1..n |-> W[i].avgIntensity.den], n)
        inten == [i \in 1..n |-> W[i].avgIntensity.num * (D \div W[i].avgIntensity.den)]
    IN  /\ S > 150 * n
        \* sd < 0.05 * mean  <=>  400 * VarN2 < S^2
        /\ S > 0 /\ VarN2(area, n) <= (S * S - 1) \div 400
        /\ VarN2(wd, n) < 9 * n * n
        /\ VarN2(ht, n) < 9 * n * n
        \* sd(cx) < 2  <=>  sd(2 cx) < 4
        /\ VarN2(cxx, n) < 16 * n * n
        /\ VarN2(cyy, n) < 16 * n * n
        /\ 2 * SumTo([i \in 1..(n - 1) |-> Abs(wd[i + 1] - wd[i])], n - 1) < 3 * (n - 1)
        /\ 2 * SumTo([i \in 1..(n - 1) |-> Abs(ht[i + 1] - ht[i])], n - 1) < 3 * (n - 1)
        /\ SumTo(inten, n) < 65 * n * D

\* C4: whenever the verdict is evaluated, isStable is true if and only if
\* all six conditions (area present, area stable, dimensions stable,
\* position stable, jitter low, shadow quality) hold over the current
\* 25-observation window, with width, height and centroid derived from the
\* bounding box.
C4_VerdictIffSixConditions ==
    Len(fed) > WindowSize => (isStable <=> (Len(Window) = WindowSize /\ SixConditions(Window)))

\* the verdict is true on a window that holds two different summaries
C4_Witness ==
    /\ Len(fed) > WindowSize
    /\ isStable
    /\ fed[Len(fed)] # fed[Len(fed) - 1]


\* C5: after every processed frame the history holds at most 25
\* observations, and exactly the most recent min(n, 25) observations of the
\* session in arrival order.
C5_HistoryIsLastWindow ==
    LET m == Min(Len(fed), WindowSize)
    IN  /\ Len(frameHistory) <= WindowSize
        /\ frameHistory = [i \in 1..m |-> currentFrame(fed[Len(fed) - m + i])]

\* an observation has been evicted and the window starts with a different one
C5_Witness ==
    /\ Len(fed) > WindowSize
    /\ Len(frameHistory) = WindowSize
    /\ frameHistory[1] # currentFrame(fed[1])

\* C6: whenever sampling is stopped (isActive false or camera not ready) the
\* frame history is empty and isStable is false, so a restarted session
\* starts from nothing.
C6_ResetWhenNotSampling ==
    (~isActive \/ ~isCameraReady) => (frameHistory = <<>> /\ isStable = FALSE)

\* the camera was switched off while the parent still shows the lock of the
\* session that just ended
C6_Witness == ~isActive /\ isVisionStable /\ lastData = Steady

----------------------------------------------------------------------------
(* The calibration workflows' claim *)

\* C7: the baseline A_hand is replaced by a calibration commit only with a
\* pixel count that was the detected area at a moment when the stability
\* verdict shown to that workflow was true and the count met the workflow's
\* minimum: at least 200 through the wizard's Capture Area, at least 50
\* through the Store Baseline button.  No area taken under a false verdict
\* is captured or committed.
C7_CommitOnlyLockedArea ==
    /\ \A c \in committed :
          /\ c \in offered
          /\ c[1] = "wizard" => c[2] >= 200
          /\ c[1] = "baseline" => c[2] >= 50
    /\ IF committed = {} THEN A_hand = DEFAULT_A_HAND
       ELSE \E c \in committed : c[2] = A_hand
    /\ (isCalibrating /\ step = CONFIRM) =>
          capturedArea >= 200 /\ <<"wizard", capturedArea>> \in offered

\* both workflows have committed an area, the baseline is 500 and the
\* verdict has since been withdrawn
C7_Witness ==
    /\ {c[1] : c \in committed} = {"wizard", "baseline"}
    /\ A_hand = 500
    /\ ~isCalibrating /\ ~isStable

\* C20: frame processing of one CameraAnalysis is serialized: at any time at
\* most one processFrame callback is scheduled, and it is the one the
\* current loop effect would cancel, also after the effect has re-run for a
\* change of isStable or isCalibrating; each callback runs to its end before
\* the next (one step of the model), and the history holds its observations
\* in the order in which the frames were processed.
C20_FrameProcessingSerialized ==
    LET first == Len(fed) - Len(frameHistory)
    IN  /\ Cardinality(rafQueue) <= 1
        /\ rafQueue \subseteq {animationId}
        /\ rafQueue # {} <=> (isActive /\ isCameraReady)
        /\ first >= 0
        /\ \A i \in 1..Len(frameHistory) : frameHistory[i] = currentFrame(fed[first + i])

\* the loop has re-run for a verdict and for the wizard, has gone on
\* processing frames past the window, and one callback is scheduled
C20_Witness ==
    /\ isStable /\ isCalibrating
    /\ Len(fed) > WindowSize + 1
    /\ Cardinality(rafQueue) = 1

\* C21: Capture Area stores the area on screen at the click, later frames
\* leave the stored area alone while the wizard shows it, and Save & Exit
\* makes that stored area the application's A_hand and closes the wizard.
C21_SaveCommitsCapturedArea ==
    [][/\ (step = PLACE_HAND /\ step' = CONFIRM) => capturedArea' = detectedArea
       /\ (step = CONFIRM /\ step' = CONFIRM) => capturedArea' = capturedArea
       /\ SaveAndExit => (A_hand' = capturedArea /\ ~isCalibrating')]_vars

\* the wizard has saved 500 and is closed, while the area on screen has
\* moved on to another value
C21_Witness ==
    /\ <<"wizard", 500>> \in committed
    /\ A_hand = 500 /\ ~isCalibrating
    /\ detectedArea = 200

\* the last 25 observations of the session, as processFrame records them
LastWindow == [i \in 1..WindowSize |-> currentFrame(fed[Len(fed) - WindowSize + i])]

\* C22: once 26 frames have been processed, isStable is a function of the
\* last 25 observations alone: any two runs that agree on them agree on the
\* verdict, whatever came before and whatever isCalibrating is.
C22_VerdictFunctionOfWindow == Len(fed) > WindowSize => isStable = Verdict(LastWindow)

\* a locked run whose first observation, since evicted, was of another
\* scene, with the calibration workflows open
C22_Witness ==
    /\ Len(fed) > WindowSize
    /\ fed[1] = Empty /\ fed[Len(fed)] = Steady
    /\ isStable /\ isCalibrating

\* the camera is on and ready and looks at the still hand
SteadyInput == isActive /\ isCameraReady /\ scene = 1

\* C23: while the camera stays active and ready and every frame yields the
\* same qualifying summary, isStable becomes true after finitely many
\* frames and the parent is told (isVisionStable), and the lock is kept by
\* every further frame of the same input.
C23_SteadyInputLocks ==
    /\ SteadyInput ~> ((isStable /\ isVisionStable) \/ ~SteadyInput)
    /\ [][(SteadyInput /\ SteadyInput' /\ isStable) => isStable']_vars

\* the lock has been reached, the parent knows, and a further frame of the
\* same input has been processed since
C23_Witness ==
    /\ SteadyInput /\ isStable /\ isVisionStable
    /\ Len(fed) > WindowSize + 1
    /\ \A i \in 1..Len(fed) : fed[i] = Steady

\* C26: under every sequence of clicks in the wizard the step stays within
\* INTRO..CONFIRM; the wizard goes from CLEAR_SURFACE on to PLACE_HAND only
\* while the detected area is at most 100; and whenever the step is CONFIRM
\* the captured area is at least 200, so that Save & Exit hands a positive
\* area to onComplete.
C26_WizardStepsGuarded ==
    /\ [](/\ step \in INTRO..CONFIRM
          /\ step = CONFIRM => capturedArea >= 200)
    /\ [][(step = CLEAR_SURFACE /\ step' = PLACE_HAND) => detectedArea <= 100]_vars

\* the wizard is at CONFIRM with the smallest area it accepts, in a second
\* calibration after one that saved 500
C26_Witness ==
    /\ isCalibrating /\ step = CONFIRM
    /\ capturedArea = 200
    /\ <<"wizard", 500>> \in committed

\* C27: A_hand is strictly positive in every application state;
\* finalizeCalibration called with area <= 0 leaves A_hand, L, h and
\* isCalibrating as they are, and called with area > 0 it changes, of App's
\* state, only A_hand (to area) and isCalibrating (to false).
C27_BaselineStaysPositive ==
    /\ [](A_hand > 0)
    /\ [][\A area \in FinalizeAreas :
            finalizeCalibration("direct", area) =>
                IF area <= 0
                THEN UNCHANGED <<A_hand, state_L, state_h, isCalibrating>>
                ELSE /\ A_hand' = area /\ ~isCalibrating'
                     /\ UNCHANGED <<estVars, state_L, state_h, detectedArea, isVisionStable>>]_vars

\* both kinds of call have been made with the sliders away from their
\* defaults: area 1 was stored, and the open wizard then survived a call
\* with area 0
C27_Witness ==
    /\ A_hand = 1 /\ isCalibrating
    /\ <<"direct", 1>> \in committed
    /\ state_L # DEFAULT_L /\ state_h # DEFAULT_H * Tenths

\* C28: under every sequence of changes of the two sliders 0 <= h <= L - 1
\* holds, so that calculateScale never sees L - h below 1.
C28_PositionBelowLight ==
    /\ 0 <= state_h /\ state_h <= (state_L - 1) * Tenths
    /\ d_hand(state_L, state_h) >= Tenths

\* C29: under every interleaving of the On/Off toggle with the settling of
\* getUserMedia and play(), isCameraReady is never true while isActive is
\* false, and once the camera is off and no start is pending, every stream
\* that was acquired has been stopped and isCameraReady is false.
C29_CameraOffReleasesStreams ==
    /\ ~isActive => ~isCameraReady
    /\ (~isActive /\ pendingStarts = 0) => (~srcObject /\ ~leaked /\ ~isCameraReady)

====
